---- MODULE Spec2Model ----
(***************************************************************************)
(* A model of file_organizer.py: organize_files (classification of the     *)
(* top-level files of a directory, folder creation, collision renaming and *)
(* move) and generate_report (directory walk, deletion candidates, totals  *)
(* and summary).  File names, categories and paths are strings, handled    *)
(* with the operators of Sequences as the Python code handles them.        *)
(***************************************************************************)
EXTENDS Integers, Sequences, FiniteSets, TLC

(***************************************************************************)
(* Bounds of the model.                                                    *)
(***************************************************************************)
\* most top-level files in the directory at the start
MaxFiles == 2
\* the clock runs from 0 to MaxTime seconds after midnight
MaxTime == 1
\* most calls of organize_files in a row
MaxRuns == 2
\* most files in the tree generate_report walks
MaxReportFiles == 3

\* the day the runs happen on, as strftime("%Y%m%d") prints it
Today == "20260101"

(***************************************************************************)
(* String helpers (str methods and os.path functions the code calls).      *)
(***************************************************************************)
Ch(s, i) == SubSeq(s, i, i)

UpperCase == "ABCDEFGHIJKLMNOPQRSTUVWXYZ"
LowerCase == "abcdefghijklmnopqrstuvwxyz"
Digits == {"0", "1", "2", "3", "4", "5", "6", "7", "8", "9"}

LowerCh(c) ==
    IF \E i \in 1..Len(UpperCase) : Ch(UpperCase, i) = c
    THEN Ch(LowerCase, CHOOSE i \in 1..Len(UpperCase) : Ch(UpperCase, i) = c)
    ELSE c

RECURSIVE lower(_)
\* str.lower()
lower(s) == IF s = "" THEN "" ELSE LowerCh(Head(s)) \o lower(Tail(s))

\* Python's  sub in s
Contains(s, sub) ==
    \E i \in 1..(Len(s) - Len(sub) + 1) : SubSeq(s, i, i + Len(sub) - 1) = sub

\* the positions of the dots of p
DotsOf(p) == {i \in 1..Len(p) : Ch(p, i) = "."}

Max(S) == CHOOSE m \in S : \A n \in S : n <= m

\* os.path.splitext on a name without separators: the extension starts at
\* the last dot, unless only dots come before it
splitext(p) ==
    IF DotsOf(p) = {} THEN <<p, "">>
    ELSE LET d == Max(DotsOf(p))
         IN  IF \E i \in 1..(d - 1) : Ch(p, i) # "."
             THEN <<SubSeq(p, 1, d - 1), SubSeq(p, d, Len(p))>>
             ELSE <<p, "">>

\* os.path.join
JoinPath(a, b) ==
    IF a = "" THEN b
    ELSE IF Ch(a, Len(a)) = "/" THEN a \o b
    ELSE a \o "/" \o b

StripSlash(s) == IF s # "" /\ Ch(s, Len(s)) = "/" THEN SubSeq(s, 1, Len(s) - 1) ELSE s

\* the directories os.makedirs(path) needs: path and its ancestors
Ancestors(path) ==
    {StripSlash(SubSeq(path, 1, i)) :
        i \in {j \in 1..Len(path) : j = Len(path) \/ Ch(path, j + 1) = "/"}} \ {""}

Pad2(n) == ToString(n \div 10) \o ToString(n % 10)

\* time.strftime("_%Y%m%d_%H%M%S") at t seconds after midnight of Today
strftime(t) ==
    "_" \o Today \o "_" \o Pad2(t \div 3600) \o Pad2((t \div 60) % 60) \o Pad2(t % 60)

(***************************************************************************)
(* The tables of organize_files.                                           *)
(***************************************************************************)
\* the dictionary as its items, in the order of the source
extension_items == <<
    <<".doc", "Documents/Word">>,
    <<".docx", "Documents/Word">>,
    <<".pdf", "Documents/PDF">>,
    <<".txt", "Documents/Text">>,
    <<".rtf", "Documents/Text">>,
    <<".xlsx", "Documents/Excel">>,
    <<".xls", "Documents/Excel">>,
    <<".pptx", "Documents/PowerPoint">>,
    <<".ppt", "Documents/PowerPoint">>,
    <<".jpg", "Images/JPEG">>,
    <<".jpeg", "Images/JPEG">>,
    <<".png", "Images/PNG">>,
    <<".gif", "Images/GIF">>,
    <<".bmp", "Images/BMP">>,
    <<".svg", "Images/SVG">>,
    <<".mp3", "Audio/MP3">>,
    <<".wav", "Audio/WAV">>,
    <<".flac", "Audio/FLAC">>,
    <<".aac", "Audio/AAC">>,
    <<".mp4", "Video/MP4">>,
    <<".avi", "Video/AVI">>,
    <<".mkv", "Video/MKV">>,
    <<".mov", "Video/MOV">>,
    <<".zip", "Archives/ZIP">>,
    <<".rar", "Archives/RAR">>,
    <<".tar", "Archives/TAR">>,
    <<".gz", "Archives/GZ">>,
    <<".py", "Programming/Python">>,
    <<".java", "Programming/Java">>,
    <<".cpp", "Programming/C++">>,
    <<".c", "Programming/C">>,
    <<".html", "WebDevelopment">>,
    <<".htm", "WebDevelopment">>,
    <<".css", "WebDevelopment">>,
    <<".js", "WebDevelopment">>,
    <<".php", "WebDevelopment">>,
    <<".jsx", "WebDevelopment">>,
    <<".ts", "WebDevelopment">>,
    <<".tsx", "WebDevelopment">> >>

\* the dictionary: extension -> folder
extension_map ==
    [e \in {extension_items[i][1] : i \in 1..Len(extension_items)} |->
        extension_items[CHOOSE i \in 1..Len(extension_items) : extension_items[i][1] = e][2]]

\* A pattern is the sequence of its literal alternatives; the date pattern
\* (20\d{2})[-_]?(0[1-9]|1[0-2])[-_]?(0[1-9]|[12][0-9]|3[01]) is marked by
\* date and matched by DateAt.
Alt(alts, folder) == [alts |-> alts, date |-> FALSE, folder |-> folder]

name_patterns == <<
    Alt(<<"backup", "bak">>, "BackupFiles"),
    Alt(<<"temp", "tmp">>, "TemporaryFiles"),
    Alt(<<"draft", "wip">>, "WorkInProgress"),
    Alt(<<"old", "outdated", "deprecated">>, "OldFiles"),
    Alt(<<"screenshot", "screen", "scrn">>, "Screenshots"),
    Alt(<<"report", "review">>, "Reports"),
    Alt(<<"invoice", "receipt", "bill">>, "FinancialDocs"),
    Alt(<<"log", "logs">>, "LogFiles"),
    Alt(<<"presentation", "slides">>, "Presentations"),
    Alt(<<"project", "prj">>, "ProjectFiles"),
    Alt(<<"data", "dataset">>, "DataFiles"),
    Alt(<<"test", "testing">>, "TestFiles"),
    Alt(<<"sample", "example">>, "SampleFiles"),
    Alt(<<"config", "cfg", "settings">>, "ConfigFiles"),
    Alt(<<"note", "notes">>, "Notes"),
    Alt(<<"download", "dl">>, "Downloads"),
    Alt(<<"scan", "scanned">>, "ScannedDocs"),
    [alts |-> <<>>, date |-> TRUE, folder |-> "DateFormattedFiles"],
    Alt(<<"website", "site", "web">>, "WebProjects") >>

\* the date pattern matches s from position i on
DateAt(s, i) ==
    /\ i + 7 <= Len(s)
    /\ SubSeq(s, i, i + 1) = "20"
    /\ Ch(s, i + 2) \in Digits
    /\ Ch(s, i + 3) \in Digits
    /\ \E s1 \in {0, 1} :
         /\ s1 = 1 => Ch(s, i + 4) \in {"-", "_"}
         /\ LET m == i + 4 + s1
            IN  /\ m + 1 <= Len(s)
                /\ \/ Ch(s, m) = "0" /\ Ch(s, m + 1) \in Digits \ {"0"}
                   \/ Ch(s, m) = "1" /\ Ch(s, m + 1) \in {"0", "1", "2"}
                /\ \E s2 \in {0, 1} :
                     /\ m + 2 + s2 + 1 <= Len(s)
                     /\ s2 = 1 => Ch(s, m + 2) \in {"-", "_"}
                     /\ LET d == m + 2 + s2
                        IN  \/ Ch(s, d) = "0" /\ Ch(s, d + 1) \in Digits \ {"0"}
                            \/ Ch(s, d) \in {"1", "2"} /\ Ch(s, d + 1) \in Digits
                            \/ Ch(s, d) = "3" /\ Ch(s, d + 1) \in {"0", "1"}

\* re.search(pattern, filename, re.IGNORECASE)
re_search(pattern, filename) ==
    IF pattern.date
    THEN \E i \in 1..Len(filename) : DateAt(filename, i)
    ELSE \E k \in 1..Len(pattern.alts) : Contains(lower(filename), pattern.alts[k])

(***************************************************************************)
(* State.                                                                  *)
(***************************************************************************)
VARIABLES
    directory_exists,   \* os.path.exists(directory)
    \* the directory tree, as paths relative to the organized directory
    files,              \* path of a regular file -> its content
    dirs,               \* the paths of the subdirectories
    now,                \* the clock as last read, in seconds after midnight
    \* organize_files
    pc,                 \* "idle" between calls, "loop" inside the for loop
    organize_by_name,   \* the argument of the running call
    pending,            \* entries of os.listdir not yet reached by the loop
    moved_files,        \* the counter the call returns
    \* what the checks look at
    listing,            \* the result of os.listdir of the running call
    attempted,          \* files whose shutil.move was called in this call
    last,               \* what the last iteration of the loop computed
    before,             \* files as they were before the last iteration
    started,            \* files as they were when the running call began
    history,            \* one record per finished call
    \* generate_report
    rtree,              \* the files of the tree the report walks
    rpc,                \* "idle", "walk" (inside os.walk), "done"
    walk_stack,         \* directories os.walk has still to yield, next first
    report,             \* the lines written to the report file
    total_files,
    total_size,
    potential_deletions,
    result              \* the value generate_report returned

rep_vars == <<rtree, rpc, walk_stack, report, total_files, total_size,
              potential_deletions, result>>

org_vars == <<directory_exists, files, dirs, now, pc, organize_by_name, pending, moved_files,
              listing, attempted, last, before, started, history>>

(***************************************************************************)
(* organize_files: classification.                                         *)
(***************************************************************************)
RECURSIVE LastMatch(_, _)
\* a wrong scan: the last matching pattern wins
LastMatch(i, filename) ==
    IF i > Len(name_patterns) THEN 0
    ELSE LET rest == LastMatch(i + 1, filename)
         IN  IF rest # 0 THEN rest
             ELSE IF re_search(name_patterns[i], filename) THEN i ELSE 0

RECURSIVE FirstMatch(_, _)
\* the for loop over name_patterns.items() with its break: the index of the
\* first pattern from i on that matches, 0 when none does
FirstMatch(i, filename) ==
    IF i > Len(name_patterns) THEN 0
    ELSE IF re_search(name_patterns[i], filename) THEN i
    ELSE FirstMatch(i + 1, filename)

\* the else branch of the extension lookup
OtherFolder(extension) ==
    "Other/" \o (IF extension # "" THEN SubSeq(extension, 2, Len(extension))
                 ELSE "No_Extension")

\* lines 153-157: the folder of a file whose extension is extension and whose
\* first matching pattern is number m (0: none, or name matching disabled)
folder_of(extension, m) ==
    IF m # 0
    THEN [folder_name |-> name_patterns[m].folder, name_matched |-> TRUE,
          extension |-> extension, ext_consulted |-> FALSE]
    ELSE [folder_name |-> IF extension \in DOMAIN extension_map
                          THEN extension_map[extension]
                          ELSE OtherFolder(extension),
          name_matched |-> FALSE,
          extension |-> extension, ext_consulted |-> TRUE]

\* lines 139-157: folder_name of a file, with what the code did to find it
classify(filename, by_name) ==
    folder_of(lower(splitext(filename)[2]),
              IF by_name THEN FirstMatch(1, filename) ELSE 0)

(***************************************************************************)
(* Initial trees.                                                          *)
(***************************************************************************)
\* the names the top-level files are drawn from
TopNames == {"photo.JPG", "notes_backup.txt", "unknown.xyz", "foo.", "Other",
             "a.txt", "Scan_2023-01-15.pdf"}

\* the files that may already sit in subdirectories
PreExisting == {{},
                {"Archive/old.zip"},
                {"Archive/old.zip", "Documents/Text/a.txt"},
                {"Documents/Text/a.txt", "Documents/Text/a_20260101_000000.txt"}}

\* os.path.dirname
dirname(p) ==
    LET S == {i \in 1..Len(p) : Ch(p, i) = "/"}
    IN  IF S = {} THEN "" ELSE SubSeq(p, 1, Max(S) - 1)

(***************************************************************************)
(* organize_files: the file system calls.                                  *)
(***************************************************************************)
\* os.path.exists
exists(p) == p \in DOMAIN files \/ p \in dirs

\* os.path.isdir
isdir(p) == p \in dirs

\* os.listdir(directory): the names of the immediate children
listdir == {p \in DOMAIN files \cup dirs : ~Contains(p, "/")}

\* a wrong target folder: the organized directory itself
TargetFolderFlat(folder_name) == ""

\* os.path.join(directory, folder_name), relative to the directory
TargetFolder(folder_name) == folder_name

\* a wrong collision name: the name is kept
KeepName(filename, t) == filename

\* the name given to a file whose target exists
new_filename(filename, t) ==
    splitext(filename)[1] \o strftime(t) \o splitext(filename)[2]

\* lines 159-173 for one file classified as c, as far as they depend on
\* the name and the time only
RouteIn(filename, c, target_folder) ==
    [folder_name |-> c.folder_name, name_matched |-> c.name_matched,
     extension |-> c.extension, ext_consulted |-> c.ext_consulted,
     makedirs |-> Ancestors(target_folder),
     target0 |-> JoinPath(target_folder, filename),
     renamed |-> [t \in 0..MaxTime |->
                    JoinPath(target_folder, new_filename(filename, t))]]

RouteOf(filename, c) == RouteIn(filename, c, TargetFolder(c.folder_name))

\* the routes of the names of the model, each computed once
Route ==
    [filename \in TopNames |-> [by_name \in BOOLEAN |->
        RouteOf(filename, classify(filename, by_name))]]

\* os.makedirs(target_folder, exist_ok=True) raises when a regular file is in
\* the way
makedirs_ok(needed) == needed \cap DOMAIN files = {}

\* lines 163-173 with route r, at time t; existed is os.path.exists(target_path)
PlanIn(filename, t, r, existed) ==
    [filename |-> filename, by_name |-> organize_by_name,
     folder_name |-> r.folder_name, name_matched |-> r.name_matched,
     extension |-> r.extension, ext_consulted |-> r.ext_consulted,
     makedirs |-> r.makedirs, mkdir_ok |-> makedirs_ok(r.makedirs),
     target0 |-> r.target0, existed |-> existed,
     target |-> IF existed THEN r.renamed[t] ELSE r.target0,
     time |-> t]

PlanOf(filename, t, r) ==
    PlanIn(filename, t, r, exists(r.target0))

\* lines 139-173 for one file: folder, target path and collision renaming
Plan(filename, t) ==
    PlanOf(filename, t,
           IF filename \in TopNames THEN Route[filename][organize_by_name]
           ELSE RouteOf(filename, classify(filename, organize_by_name)))

\* a wrong move: the source is copied and stays
copy_only(src, dst) ==
    [q \in DOMAIN files \cup {dst} |-> IF q = dst THEN files[src] ELSE files[q]]

\* os.rename(src, dst) as shutil.move calls it: dst is replaced
rename(src, dst) ==
    [q \in (DOMAIN files \ {src}) \cup {dst} |->
        IF q = dst THEN files[src] ELSE files[q]]

NoPlan == [filename |-> "", by_name |-> FALSE, folder_name |-> "",
           name_matched |-> FALSE, extension |-> "", ext_consulted |-> FALSE,
           makedirs |-> {}, mkdir_ok |-> TRUE, target0 |-> "",
           existed |-> FALSE, target |-> "", time |-> 0]

Done(op, plan) == [op |-> op, plan |-> plan]

\* generate_report is not running
ReportIdle ==
    /\ rtree = {}
    /\ rpc = "idle"
    /\ walk_stack = <<>>
    /\ report = <<>>
    /\ total_files = 0
    /\ total_size = 0
    /\ potential_deletions = <<>>
    /\ result = "none"

\* organize_files is not running
OrganizeIdle ==
    /\ now = 0
    /\ pc = "idle"
    /\ pending = {}
    /\ moved_files = 0
    /\ listing = <<>>
    /\ attempted = {}
    /\ last = Done("none", NoPlan)
    /\ before = files
    /\ started = files
    /\ history = <<>>

Init ==
    /\ directory_exists \in BOOLEAN
    /\ \E top \in SUBSET TopNames, pre \in PreExisting :
         /\ Cardinality(top) <= MaxFiles
         /\ ~directory_exists => top = {} /\ pre = {}
         /\ files = [p \in top \cup pre |-> p]
         /\ dirs = UNION {Ancestors(dirname(p)) : p \in pre}
    /\ organize_by_name \in BOOLEAN
    /\ OrganizeIdle
    /\ ReportIdle

(***************************************************************************)
(* organize_files: the actions.                                            *)
(***************************************************************************)
\* time.strftime reads the clock only when the target exists; the clock does
\* not run backwards
ClockRead(plan, t) ==
    /\ ~plan.existed => t = now
    /\ now' = t

\* the call on a directory that does not exist: lines 42-44, return 0
OrganizeMissing ==
    /\ pc = "idle"
    /\ ~directory_exists
    /\ Len(history) < MaxRuns
    /\ history' = Append(history,
                         [listing |-> <<>>, attempted |-> {}, aborted |-> "",
                          moved |-> 0, started |-> files,
                          files |-> files, dirs |-> dirs])
    /\ last' = Done("return", NoPlan)
    /\ UNCHANGED <<directory_exists, files, dirs, now, pc, organize_by_name,
                   pending, moved_files, listing, attempted, before, started>>
    /\ UNCHANGED rep_vars

\* the call: lines 40-132, up to the listing of the directory
StartOrganize ==
    /\ pc = "idle"
    /\ directory_exists
    /\ Len(history) < MaxRuns
    /\ pc' = "loop"
    /\ pending' = listdir
    /\ listing' = [name \in listdir |-> isdir(name)]
    /\ moved_files' = 0
    /\ attempted' = {}
    /\ last' = Done("start", NoPlan)
    /\ before' = files
    /\ started' = files
    /\ UNCHANGED <<directory_exists, files, dirs, now, organize_by_name, history>>
    /\ UNCHANGED rep_vars

\* an iteration on a subdirectory: continue
SkipDirectory ==
    /\ pc = "loop"
    /\ \E filename \in pending :
         /\ isdir(filename)
         /\ pending' = pending \ {filename}
         /\ last' = Done("skip", NoPlan)
    /\ before' = files
    /\ UNCHANGED <<directory_exists, files, dirs, now, pc, organize_by_name,
                   moved_files, listing, attempted, started, history>>
    /\ UNCHANGED rep_vars

\* an iteration whose os.makedirs raises: the outer except ends the loop
MakedirsFailsOn(plan) ==
    /\ ~plan.mkdir_ok
    /\ last' = Done("mkdirfail", plan)
    /\ pending' = {}
    /\ before' = files
    /\ UNCHANGED <<directory_exists, files, dirs, now, pc, organize_by_name,
                   moved_files, listing, attempted, started, history>>
    /\ UNCHANGED rep_vars

MakedirsFails ==
    /\ pc = "loop"
    /\ \E filename \in pending :
         ~isdir(filename) /\ MakedirsFailsOn(Plan(filename, now))

\* an iteration whose shutil.move succeeds
MoveFileOn(filename, plan, t) ==
    /\ plan.mkdir_ok
    /\ ClockRead(plan, t)
    /\ dirs' = dirs \cup plan.makedirs
    /\ files' = rename(filename, plan.target)
    /\ pending' = pending \ {filename}
    /\ attempted' = attempted \cup {filename}
    /\ last' = Done("moved", plan)
    /\ moved_files' = moved_files + 1
    /\ before' = files
    /\ UNCHANGED <<directory_exists, pc, organize_by_name, listing, started, history>>
    /\ UNCHANGED rep_vars

MoveFile ==
    /\ pc = "loop"
    /\ \E filename \in pending, t \in now..MaxTime :
         ~isdir(filename) /\ MoveFileOn(filename, Plan(filename, t), t)

\* an iteration whose shutil.move raises: the inner except reports it
MoveFailsOn(filename, plan, t) ==
    /\ plan.mkdir_ok
    /\ ClockRead(plan, t)
    /\ dirs' = dirs \cup plan.makedirs
    /\ pending' = pending \ {filename}
    /\ attempted' = attempted \cup {filename}
    /\ last' = Done("movefail", plan)
    /\ before' = files
    /\ UNCHANGED <<directory_exists, files, pc, organize_by_name, moved_files,
                   listing, started, history>>
    /\ UNCHANGED rep_vars

MoveFails ==
    /\ pc = "loop"
    /\ \E filename \in pending, t \in now..MaxTime :
         ~isdir(filename) /\ MoveFailsOn(filename, Plan(filename, t), t)

\* the end of the loop: return moved_files
FinishOrganize ==
    /\ pc = "loop"
    /\ pending = {}
    /\ pc' = "idle"
    /\ history' = Append(history,
                         [listing |-> listing, attempted |-> attempted,
                          aborted |-> IF last.op = "mkdirfail"
                                      THEN last.plan.filename ELSE "",
                          moved |-> moved_files, started |-> started,
                          files |-> files, dirs |-> dirs])
    /\ last' = Done("return", NoPlan)
    /\ before' = files
    /\ UNCHANGED <<directory_exists, files, dirs, now, organize_by_name, pending,
                   moved_files, listing, attempted, started>>
    /\ UNCHANGED rep_vars

Next ==
    \/ OrganizeMissing
    \/ StartOrganize
    \/ SkipDirectory
    \/ MakedirsFails
    \/ MoveFile
    \/ MoveFails
    \/ FinishOrganize

vars == <<org_vars, rep_vars>>

Spec == Init /\ [][Next]_vars

(***************************************************************************)
(* generate_report: constants and pure functions.                          *)
(***************************************************************************)
report_filename == "file_organization_report.txt"

deletion_categories ==
    <<"TemporaryFiles", "BackupFiles", "OldFiles", "Duplicates", "Downloads", "Cache">>

\* 60 * 60 * 24 of line 245
SecondsPerDay == 60 * 60 * 24

\* time.time() while the report is made
ReportTime == 300 * SecondsPerDay

\* f"{n/d:.1f}": n/d to one decimal, rounded half to even (d is a power of
\* two, so the quotient is exact)
OneDecimal(n, d) ==
    LET q == (10 * n) \div d
        r == (10 * n) % d
        tenths == IF 2 * r > d \/ (2 * r = d /\ q % 2 = 1) THEN q + 1 ELSE q
    IN  ToString(tenths \div 10) \o "." \o ToString(tenths % 10)

format_size(size_bytes) ==
    IF size_bytes < 1024 THEN ToString(size_bytes) \o " bytes"
    ELSE IF size_bytes < 1024 * 1024 THEN OneDecimal(size_bytes, 1024) \o " KB"
    ELSE IF size_bytes < 1024 * 1024 * 1024
         THEN OneDecimal(size_bytes, 1024 * 1024) \o " MB"
    ELSE OneDecimal(size_bytes, 1024 * 1024 * 1024) \o " GB"

\* the marker test of lines 252-255
has_marker(rel_path, file) ==
    \E i \in 1..Len(deletion_categories) :
        \/ Contains(lower(rel_path), lower(deletion_categories[i]))
        \/ Contains(lower(file), lower(deletion_categories[i]))

\* a wrong rule: marker and age are both required
is_candidate_both(rel_path, file, age) ==
    has_marker(rel_path, file) /\ age > 180 * SecondsPerDay

\* lines 251-259, with the age in seconds: age_days > 180
is_candidate(rel_path, file, age) ==
    has_marker(rel_path, file) \/ age > 180 * SecondsPerDay

\* a wrong except branch: the size read before the failure is kept
ScanFileKeepsSize(rel_path, f) ==
    [detail |-> [name |-> f.name, size |-> f.size, modified |-> 0, age |-> 0],
     size |-> f.size,
     candidates |-> <<>>]

\* the except branch of line 265: the file is listed with zeros
ScanFileFailed(rel_path, f) ==
    [detail |-> [name |-> f.name, size |-> 0, modified |-> 0, age |-> 0],
     size |-> 0,
     candidates |-> <<>>]

\* lines 243-262 for a file whose size and mtime are read
ScanFileRead(rel_path, f, age) ==
    [detail |-> [name |-> f.name, size |-> f.size, modified |-> f.modified,
                 age |-> age],
     size |-> f.size,
     candidates |-> IF is_candidate(rel_path, f.name, age)
                    THEN << [rel_path |-> rel_path, name |-> f.name,
                             size |-> f.size, age |-> age] >>
                    ELSE <<>>]

\* the body of the loop of line 240 for one file
ScanFile(rel_path, f) ==
    IF f.stat_ok THEN ScanFileRead(rel_path, f, ReportTime - f.modified)
    ELSE ScanFileFailed(rel_path, f)

Combine(one, rest) ==
    [details |-> <<one.detail>> \o rest.details,
     directory_size |-> one.size + rest.directory_size,
     candidates |-> one.candidates \o rest.candidates]

RECURSIVE ScanFiles(_, _)
\* the loop of line 240 over the files of a directory, in listing order
ScanFiles(rel_path, order) ==
    IF order = <<>>
    THEN [details |-> <<>>, directory_size |-> 0, candidates |-> <<>>]
    ELSE Combine(ScanFile(rel_path, Head(order)), ScanFiles(rel_path, Tail(order)))

RECURSIVE InsertDesc(_, _)
\* x put before the first element that is not larger than it
InsertDesc(x, sorted) ==
    IF sorted = <<>> THEN <<x>>
    ELSE IF Head(sorted).size <= x.size THEN <<x>> \o sorted
    ELSE <<Head(sorted)>> \o InsertDesc(x, Tail(sorted))

RECURSIVE SortBySize(_)
\* list.sort(key=size, reverse=True): by descending size, stable
SortBySize(seq) ==
    IF seq = <<>> THEN <<>> ELSE InsertDesc(Head(seq), SortBySize(Tail(seq)))

RECURSIVE SumSizes(_)
\* sum(item[2] for item in potential_deletions)
SumSizes(seq) == IF seq = <<>> THEN 0 ELSE Head(seq).size + SumSizes(Tail(seq))

(***************************************************************************)
(* generate_report: the trees it walks.                                    *)
(***************************************************************************)
File(dir, name, size, age, stat_ok) ==
    [dir |-> dir, name |-> name, size |-> size,
     modified |-> ReportTime - age, stat_ok |-> stat_ok]

Days(n) == n * SecondsPerDay

\* the files the trees are drawn from; the root directory is ""
ReportFiles ==
    {File("", "backup_2023.zip", 1536, Days(10), TRUE),
     File("", "report.txt", 512, Days(200), TRUE),
     File("Documents/Text", "report.txt", 1310720, Days(5), TRUE),
     File("BackupFiles", "notes.txt", 1023, Days(5), TRUE),
     File("", "My_CACHE.dat", 0, Days(5), TRUE),
     File("", "cache_link", 4096, Days(5), FALSE),
     File("Reports", report_filename, 2048, Days(5), TRUE),
     File("", "old.log", 1024, Days(180), TRUE)}

\* the report file, which open() has created in the root directory
ReportItself == File("", report_filename, 0, 0, TRUE)

\* the directories of the tree
TreeDirs == {""} \cup UNION {Ancestors(f.dir) : f \in rtree}

\* the entries os.walk lists as files of directory root
Listed(root) ==
    {f \in rtree : f.dir = root} \cup (IF root = "" THEN {ReportItself} ELSE {})

\* the subdirectories os.walk lists in directory root
Children(root) == {d \in TreeDirs \ {""} : dirname(d) = root}

\* the orders in which a listing can come
Orders(S) ==
    {o \in [1..Cardinality(S) -> S] :
        \A i, j \in 1..Cardinality(S) : o[i] = o[j] => i = j}

NotReport(f) == f.name # report_filename

\* os.path.relpath(root, directory), with the label of line 231
rel_path_of(root) == IF root = "" THEN "Root Directory" ELSE root

Line(kind, text) == [kind |-> kind, text |-> text]

RECURSIVE FileLines(_)
\* lines 270-275
FileLines(details) ==
    IF details = <<>> THEN <<>>
    ELSE << Line("file", <<Head(details).name, format_size(Head(details).size),
                           Head(details).modified, Head(details).age>>) >>
         \o FileLines(Tail(details))

RECURSIVE CandidateLines(_)
\* lines 298-301
CandidateLines(cands) ==
    IF cands = <<>> THEN <<>>
    ELSE << Line("candidate",
                 <<IF Head(cands).rel_path # "Root Directory"
                   THEN JoinPath(Head(cands).rel_path, Head(cands).name)
                   ELSE Head(cands).name,
                   format_size(Head(cands).size), Head(cands).age>>) >>
         \o CandidateLines(Tail(cands))

(***************************************************************************)
(* generate_report: the actions.                                           *)
(***************************************************************************)
ReportInit ==
    /\ directory_exists \in BOOLEAN
    /\ files = <<>>
    /\ dirs = {}
    /\ organize_by_name = FALSE
    /\ OrganizeIdle
    /\ rtree \in {t \in SUBSET ReportFiles :
                    /\ Cardinality(t) <= MaxReportFiles
                    /\ ~directory_exists => t = {}}
    /\ rpc = "idle"
    /\ walk_stack = <<>>
    /\ report = <<>>
    /\ total_files = 0
    /\ total_size = 0
    /\ potential_deletions = <<>>
    /\ result = "none"

\* the call on a directory that does not exist: lines 202-204, return None
ReportMissing ==
    /\ rpc = "idle"
    /\ ~directory_exists
    /\ rpc' = "done"
    /\ result' = "None"
    /\ UNCHANGED <<rtree, walk_stack, report, total_files, total_size,
                   potential_deletions>>
    /\ UNCHANGED org_vars

\* lines 209-217: the report file is opened and its heading written
StartReport ==
    /\ rpc = "idle"
    /\ directory_exists
    /\ rpc' = "walk"
    /\ walk_stack' = <<"">>
    /\ report' = << Line("title", <<ReportTime>>), Line("directory", <<"">>) >>
    /\ total_files' = 0
    /\ total_size' = 0
    /\ potential_deletions' = <<>>
    /\ UNCHANGED <<rtree, result>>
    /\ UNCHANGED org_vars

\* lines 228-280 for a directory with files, scanned as scan
VisitWith(root, listed, scan, subdirs) ==
    /\ report' = report
                 \o << Line("header", <<rel_path_of(root), Len(listed)>>) >>
                 \o FileLines(SortBySize(scan.details))
                 \o << Line("directory_size", <<format_size(scan.directory_size)>>) >>
    /\ potential_deletions' = potential_deletions \o scan.candidates
    /\ total_files' = total_files + Len(listed)
    /\ total_size' = total_size + scan.directory_size
    /\ walk_stack' = subdirs \o Tail(walk_stack)

\* one step of os.walk: lines 224-280 for the next directory
Visit(root, listed, subdirs) ==
    IF listed # <<>>
    THEN VisitWith(root, listed, ScanFiles(rel_path_of(root), listed), subdirs)
    ELSE /\ walk_stack' = subdirs \o Tail(walk_stack)
         /\ UNCHANGED <<report, potential_deletions, total_files, total_size>>

VisitDirectory ==
    /\ rpc = "walk"
    /\ walk_stack # <<>>
    /\ \E order \in Orders(Listed(Head(walk_stack))),
          subdirs \in Orders(Children(Head(walk_stack))) :
         Visit(Head(walk_stack), SelectSeq(order, NotReport), subdirs)
    /\ UNCHANGED <<rtree, rpc, result>>
    /\ UNCHANGED org_vars

\* lines 283-287
SummaryLines ==
    << Line("total_files", <<total_files>>),
       Line("total_size", <<format_size(total_size)>>) >>

\* (potential_savings/total_size*100) to one decimal, in tenths of a percent
Percent(potential_savings) ==
    LET q == (1000 * potential_savings) \div total_size
        r == (1000 * potential_savings) % total_size
    IN  IF 2 * r >= total_size THEN q + 1 ELSE q

\* lines 283-308: the summary is written and the path returned
WriteSummary ==
    /\ rpc = "walk"
    /\ walk_stack = <<>>
    /\ potential_deletions # <<>> => total_size # 0
    /\ potential_deletions' = SortBySize(potential_deletions)
    /\ report' = report \o SummaryLines \o
          (IF potential_deletions = <<>> THEN <<>>
           ELSE CandidateLines(SortBySize(potential_deletions)) \o
                << Line("savings",
                        <<format_size(SumSizes(potential_deletions)),
                          Percent(SumSizes(potential_deletions))>>) >>)
    /\ rpc' = "done"
    /\ result' = report_filename
    /\ UNCHANGED <<rtree, walk_stack, total_files, total_size>>
    /\ UNCHANGED org_vars

\* lines 283-305 and 310-312: the division of line 305 raises
\* ZeroDivisionError, the savings line is not written and None is returned
SummaryDivisionFails ==
    /\ rpc = "walk"
    /\ walk_stack = <<>>
    /\ potential_deletions # <<>>
    /\ total_size = 0
    /\ potential_deletions' = SortBySize(potential_deletions)
    /\ report' = report \o SummaryLines \o
                 CandidateLines(SortBySize(potential_deletions))
    /\ rpc' = "done"
    /\ result' = "None"
    /\ UNCHANGED <<rtree, walk_stack, total_files, total_size>>
    /\ UNCHANGED org_vars

ReportNext ==
    \/ ReportMissing
    \/ StartReport
    \/ VisitDirectory
    \/ WriteSummary
    \/ SummaryDivisionFails

ReportSpec == ReportInit /\ [][ReportNext]_vars

(***************************************************************************)
(* Properties of organize_files.                                           *)
(***************************************************************************)
Min(S) == CHOOSE m \in S : \A n \in S : m <= n

\* the last iteration classified a file
Classified == last.op \in {"moved", "movefail", "mkdirfail"}

\* the patterns that match each name of the model
MatchTable ==
    [f \in TopNames |->
        {i \in 1..Len(name_patterns) : re_search(name_patterns[i], f)}]

\* C1: with name matching enabled, a file that matches at least one name
\* pattern gets the folder of the earliest declared pattern that matches it
\* (case-insensitively, anywhere in the name) and the extension table is not
\* consulted; notes_backup.txt goes to BackupFiles.
C1_FirstPatternDecides ==
    (Classified /\ last.plan.by_name /\ MatchTable[last.plan.filename] # {}) =>
        /\ last.plan.folder_name =
              name_patterns[Min(MatchTable[last.plan.filename])].folder
        /\ ~last.plan.ext_consulted
        /\ last.plan.filename = "notes_backup.txt" =>
              last.plan.folder_name = "BackupFiles"
        /\ last.plan.filename = "Scan_2023-01-15.pdf" =>
              last.plan.folder_name = "ScannedDocs"

C1_Witness ==
    /\ last.op = "moved"
    /\ last.plan.by_name
    /\ last.plan.filename = "notes_backup.txt"
    /\ Cardinality(MatchTable["notes_backup.txt"]) >= 2
    /\ "BackupFiles/notes_backup.txt" \in DOMAIN files

\* os.path.basename
basename(p) == SubSeq(p, Len(dirname(p)) + (IF dirname(p) = "" THEN 1 ELSE 2), Len(p))

\* tok is _YYYYMMDD_HHMMSS: two underscores and 14 digits
IsTimestamp(tok) ==
    /\ Len(tok) = 16
    /\ \A i \in 1..16 : IF i \in {1, 10} THEN Ch(tok, i) = "_" ELSE Ch(tok, i) \in Digits

\* name is filename with a timestamp between its base name and its extension
Suffixed(filename, name) ==
    /\ Len(name) = Len(filename) + 16
    /\ SubSeq(name, 1, Len(splitext(filename)[1])) = splitext(filename)[1]
    /\ IsTimestamp(SubSeq(name, Len(splitext(filename)[1]) + 1,
                          Len(splitext(filename)[1]) + 16))
    /\ SubSeq(name, Len(splitext(filename)[1]) + 17, Len(name)) = splitext(filename)[2]

\* the last iteration found a file at its destination path
Collided == last.op \in {"moved", "movefail"} /\ last.plan.target0 \in DOMAIN before

\* C2: when the destination path of a file already exists, the file that was
\* there stays with its content, and the moved file arrives in the same
\* folder under its name with _YYYYMMDD_HHMMSS inserted before the extension.
C2_CollisionKeepsOriginal ==
    Collided =>
        /\ last.plan.target0 \in DOMAIN files
        /\ files[last.plan.target0] = before[last.plan.target0]
        /\ last.op = "moved" =>
              /\ last.plan.target \in DOMAIN files
              /\ files[last.plan.target] = before[last.plan.filename]
              /\ last.plan.filename \notin DOMAIN files
              /\ dirname(last.plan.target) = dirname(last.plan.target0)
              /\ Suffixed(last.plan.filename, basename(last.plan.target))

C2_Witness ==
    /\ Collided
    /\ last.op = "moved"
    /\ last.plan.filename = "a.txt"
    /\ "Documents/Text/a_20260101_000001.txt" \in DOMAIN files
    /\ files["Documents/Text/a.txt"] = "Documents/Text/a.txt"

\* the regular files of a listing
Regular(l) == {name \in DOMAIN l : ~l[name]}

\* C3: a failure on one file (creating its folder or moving it) is caught for
\* that file only: in every finished call the move of every other regular
\* file of the listing was attempted.
C3_OthersStillAttempted ==
    \A k \in 1..Len(history) :
        Regular(history[k].listing) \ {history[k].aborted} \subseteq history[k].attempted

AllMoved(h) == h.moved = Cardinality(Regular(h.listing))

\* C4: after a call that moved every top-level regular file, the tree no
\* longer changes: a following call returns 0 and leaves every file and
\* directory where it is.
C4_SecondRunMovesNothing ==
    /\ \A k \in 2..Len(history) :
         AllMoved(history[k - 1]) =>
            /\ history[k].moved = 0
            /\ history[k].files = history[k - 1].files
            /\ history[k].dirs = history[k - 1].dirs
    /\ (history # <<>> /\ AllMoved(history[Len(history)])) =>
            /\ files = history[Len(history)].files
            /\ dirs = history[Len(history)].dirs
            /\ moved_files = IF pc = "loop" THEN 0 ELSE history[Len(history)].moved

C4_Witness ==
    /\ Len(history) = 2
    /\ history[1].moved = 2
    /\ AllMoved(history[1])
    /\ history[2].moved = 0
    /\ Cardinality(DOMAIN history[2].listing) >= 2

\* C9: a file not classified by name gets the extension table's folder for
\* its lower-cased extension, else Other/<extension without the dot>, else
\* Other/No_Extension when it has no extension; never Other/ with nothing
\* after it.
C9_ExtensionFolder ==
    (Classified /\ ~last.plan.name_matched) =>
        /\ last.plan.folder_name =
              IF last.plan.extension \in DOMAIN extension_map
              THEN extension_map[last.plan.extension]
              ELSE IF last.plan.extension = "" THEN "Other/No_Extension"
              ELSE "Other/" \o Tail(last.plan.extension)
        /\ last.plan.filename = "photo.JPG" => last.plan.folder_name = "Images/JPEG"
        /\ last.plan.folder_name # "Other/"

\* the paths that hold content c
Holders(c) == {q \in DOMAIN files : files[q] = c}

\* C10 as claimed: every file that existed before a call still exists with
\* its content at exactly one path after it, and the number of files is the
\* same.
C10_NoFileLost ==
    \A k \in 1..Len(history) :
        /\ \A p \in DOMAIN history[k].started :
             Cardinality({q \in DOMAIN history[k].files :
                            history[k].files[q] = history[k].started[p]}) = 1
        /\ Cardinality(DOMAIN history[k].files) = Cardinality(DOMAIN history[k].started)

\* C10 as amended: an iteration keeps every file's content at exactly one
\* path, except a file that sat under the timestamp-suffixed name a colliding
\* move was given: that one is overwritten.
C10_LostOnlyUnderSuffixedName ==
    \A p \in DOMAIN before :
        \/ Cardinality(Holders(before[p])) = 1
        \/ /\ Collided
           /\ last.op = "moved"
           /\ p # last.plan.target0
           /\ dirname(p) = dirname(last.plan.target0)
           /\ Suffixed(last.plan.filename, basename(p))
           /\ Holders(before[p]) = {}

C10_Witness ==
    /\ Collided
    /\ last.op = "moved"
    /\ last.plan.target \in DOMAIN before
    /\ Holders(before[last.plan.target]) = {}
    /\ files[last.plan.target] = before[last.plan.filename]

(***************************************************************************)
(* Properties of generate_report.                                          *)
(***************************************************************************)
\* os.walk has yielded every directory of an existing tree
Walked ==
    /\ directory_exists
    /\ \/ rpc = "walk" /\ walk_stack = <<>>
       \/ rpc = "done"

\* how often file f stands among the deletion candidates
Recordings(f) ==
    Cardinality({i \in 1..Len(potential_deletions) :
                    /\ potential_deletions[i].name = f.name
                    /\ potential_deletions[i].rel_path = rel_path_of(f.dir)})

Recorded(f) == Recordings(f) = 1

\* the age of a file in seconds; zero when it cannot be read
AgeOf(f) == IF f.stat_ok THEN ReportTime - f.modified ELSE 0

\* C5 as claimed: every file of the walk other than the report file is
\* recorded as a deletion candidate exactly when its relative directory or
\* its name contains a marker word, case-insensitively, or its age exceeds
\* 180 days.
C5_CandidateIffMarkerOrOld ==
    Walked =>
        \A f \in rtree :
            NotReport(f) =>
                /\ Recordings(f) <= 1
                /\ Recorded(f) <=> (has_marker(f.dir, f.name) \/ AgeOf(f) > Days(180))

\* f is in a directory without marker word, named name, age days old
Specimen(f, name, days) ==
    /\ ~has_marker(f.dir, "")
    /\ f.name = name
    /\ f.stat_ok
    /\ AgeOf(f) = Days(days)

\* C6 as claimed: backup_2023.zip of age 10 days is flagged, report.txt of
\* age 200 days is flagged, report.txt of age 5 days is not.
C6_AsClaimed ==
    Walked =>
        \A f \in rtree :
            /\ Specimen(f, "backup_2023.zip", 10) => Recorded(f)
            /\ Specimen(f, "report.txt", 200) => Recorded(f)
            /\ Specimen(f, "report.txt", 5) => ~Recorded(f)

\* C6 as amended: backup_2023.zip of age 10 days is not flagged (its name
\* contains no marker word), report.txt of age 200 days is flagged, report.txt
\* of age 5 days is not, each in a directory without marker word.
C6_Amended ==
    Walked =>
        \A f \in rtree :
            /\ Specimen(f, "backup_2023.zip", 10) => ~Recorded(f)
            /\ Specimen(f, "report.txt", 200) => Recorded(f)
            /\ Specimen(f, "report.txt", 5) => ~Recorded(f)

C6_Witness ==
    /\ Walked
    /\ rpc = "done"
    /\ \E f \in rtree : Specimen(f, "backup_2023.zip", 10)
    /\ \E f \in rtree : Specimen(f, "report.txt", 200)
    /\ \E f \in rtree : Specimen(f, "report.txt", 5)
    /\ Len(potential_deletions) = 1
    /\ potential_deletions[1].name = "report.txt"
    /\ potential_deletions[1].rel_path = "Root Directory"

RECURSIVE ReadableBytes(_)
\* the bytes of the files of T whose size can be read
ReadableBytes(T) ==
    IF T = {} THEN 0
    ELSE LET f == CHOOSE g \in T : TRUE
         IN  (IF f.stat_ok THEN f.size ELSE 0) + ReadableBytes(T \ {f})

RECURSIVE HeaderCounts(_)
\* the sum of the file counts of the section headers
HeaderCounts(lines) ==
    IF lines = <<>> THEN 0
    ELSE (IF Head(lines).kind = "header" THEN Head(lines).text[2] ELSE 0)
         + HeaderCounts(Tail(lines))

\* the texts of the lines of a kind
Texts(kind) == {report[i].text : i \in {j \in 1..Len(report) : report[j].kind = kind}}

\* the files of the tree other than the report file
Reported == {f \in rtree : NotReport(f)}

C8_ReportAlwaysReturned ==
    (rpc = "done" /\ directory_exists) =>
        /\ result = report_filename
        /\ potential_deletions # <<>> => Texts("savings") # {}
====
